---- MODULE Spec2Model ----
(***************************************************************************)
(* Model of the slit-scan compositor of anim_slitscan.py: class Slitscan   *)
(* (time_to_offset, init_background, get_context, __init__, render).       *)
(*                                                                         *)
(* Times are integers counted in ticks; one buffer column lasts            *)
(* TicksPerStep ticks, so duration = +/- steps * TicksPerStep ticks and    *)
(* duration / steps is a whole number of ticks.  All arithmetic is exact   *)
(* (rationals as numerator and denominator); Python's round() is           *)
(* round-half-to-even and its % takes the sign of the divisor.             *)
(***************************************************************************)
EXTENDS Integers, Sequences, FiniteSets

\* ---------------------------------------------------------------- bounds
MaxSteps == 4          \* steps ranges over 1..MaxSteps
TicksPerStep == 2      \* time resolution: ticks per buffer column
MaxExtent == 2         \* from_extent, to_extent range over 0..MaxExtent
MaxSpan2 == 3          \* span ranges over 0, 1/2, .., MaxSpan2/2 pixels
MaxHeight == 1         \* extent (buffer height) ranges over 1..MaxHeight
MaxItems == 2          \* a SlitscanObjects has 1..MaxItems items
MaxItemOffset == 2     \* an item's x_offset ranges over -1..MaxItemOffset

VARIABLES
    steps,             \* self.steps
    duration,          \* self.duration, in ticks
    extent,            \* self.extent
    items,             \* SlitscanObjects.items (empty for a plain Slitscan)
    pix,               \* self.pix: per buffer column, what it holds
    last_draw_time,    \* self.last_draw_time: None or Some(t)
    pc,                \* position inside render: idle, catchup, composite
    at_time,           \* render's argument at_time
    base_offset,       \* render's local base_offset
    this_offset,       \* render's local this_offset (catch-up cursor)
    time_steps,        \* render's local time_steps
    from_extent,       \* render's argument from_extent
    to_extent,         \* render's argument to_extent
    span2,             \* render's local span, in half pixels
    i,                 \* render's loop variable i
    g_saved,           \* g.save() calls of this render not yet restored
    outcome,           \* how the latest render call ended
    draws,             \* draw callback invocations of the current call
    fills,             \* g.fill() calls of the current call
    entry,             \* self.last_draw_time and self.pix at call entry
    prev,              \* the preceding render call: how it ended and,
                       \* unless the draw callback interrupted it, its time
    win                \* the current run of calls at increasing times

vars == <<steps, duration, extent, items, pix, last_draw_time, pc, at_time,
          base_offset, this_offset, time_steps, from_extent, to_extent,
          span2, i, g_saved, outcome, draws, fills, entry, prev, win>>

\* ------------------------------------------------------- value encodings
None == <<>>
Some(v) == <<v>>
Val(o) == o[1]

Abs(x) == IF x < 0 THEN -x ELSE x
Min(a, b) == IF a <= b THEN a ELSE b

\* floor(num / den) and ceil(num / den) for den > 0
FloorDiv(num, den) == num \div den
CeilDiv(num, den) == -((-num) \div den)

\* Python 3 round(num / den): nearest integer, ties to the even one
round(num, den) ==
    LET n == IF den < 0 THEN -num ELSE num
        d == Abs(den)
        q == n \div d
        r == n % d
    IN  IF 2 * r < d THEN q
        ELSE IF 2 * r > d THEN q + 1
        ELSE IF q % 2 = 0 THEN q ELSE q + 1

\* ----------------------------------------------------- Slitscan internals
\* variant: the offset grows with time
unwrapped_offset_rising(t) ==
    round((duration + t) * steps - duration, duration)

\* round((1.0 - at_time / self.duration) * self.steps - 1)
unwrapped_offset(t) ==
    round((duration - t) * steps - duration, duration)

\* variant: the result is not reduced modulo steps
time_to_offset_unreduced(t) == unwrapped_offset(t)

\* round((1.0 - at_time / self.duration) * self.steps - 1) % self.steps
time_to_offset(t) == unwrapped_offset(t) % steps

\* what a buffer column holds: nothing yet (a new ImageSurface), the
\* background fill, or what the draw callback painted over the background
Blank == [kind |-> "blank"]
Background == [kind |-> "background"]
Drawn == [kind |-> "drawn"]

\* variant: the background is never painted
init_background_skipped(buf, clip) == buf

\* init_background: paints the background over the columns inside the
\* current clip
init_background(buf, clip) ==
    [c \in DOMAIN buf |-> IF c \in clip THEN Background ELSE buf[c]]

\* get_context(at_time): selects column time_to_offset(at_time), clips to
\* it and fills it with the background
get_context(buf, t) == init_background(buf, {time_to_offset(t)})

\* the times a render call may be given
Times == (-TicksPerStep) .. (Abs(duration) + 2 * TicksPerStep)

Columns == 0 .. (steps - 1)

\* outside a call nothing is remembered of the state at call entry
NoEntry == [last |-> None, pix |-> <<>>]

\* a run of calls at strictly increasing times that spans less than one
\* period: the time of its first call, whether the current call is that
\* first one, and the columns the later calls have painted so far
NoWindow == [start |-> None, first |-> TRUE, cols |-> <<>>]

\* ----------------------------------------------------------- construction
\* Slitscan.__init__ after the parameters are stored: the whole bitmap is
\* painted with the background and last_draw_time is None
construct ==
    /\ pix = init_background([c \in 0 .. (steps - 1) |-> Blank],
                              0 .. (steps - 1))
    /\ last_draw_time = None
    /\ pc = "idle"
    /\ at_time = 0
    /\ base_offset = 0
    /\ this_offset = 0
    /\ time_steps = 0
    /\ from_extent = 0
    /\ to_extent = 0
    /\ span2 = 0
    /\ i = 0
    /\ g_saved = 0
    /\ outcome = "none"
    /\ draws = <<>>
    /\ fills = <<>>
    /\ entry = NoEntry
    /\ prev = [outcome |-> "none", at |-> None]
    /\ win = NoWindow

\* a plain Slitscan with parameters as the interface asks for them
Init ==
    /\ steps \in 1 .. MaxSteps
    /\ duration \in {steps * TicksPerStep, -(steps * TicksPerStep)}
    /\ extent \in 1 .. MaxHeight
    /\ items = <<>>
    /\ construct

\* the items of a SlitscanObjects: short ones and ones longer than the
\* time window of a column
Items == [x_offset : (-1) .. MaxItemOffset,
          width : {1, Abs(duration) + 2}]

ItemLists == UNION {[1 .. n -> Items] : n \in 1 .. MaxItems}

\* SlitscanObjects.__init__: a Slitscan whose draw callback is draw_items
InitItems ==
    /\ steps \in 1 .. MaxSteps
    /\ duration \in {steps * TicksPerStep, -(steps * TicksPerStep)}
    /\ extent \in 1 .. MaxHeight
    /\ items \in ItemLists
    /\ construct

\* a plain Slitscan with any duration the constructor accepts; it checks
\* none of its parameters (non-positive steps and extent go unchecked to
\* cairo.ImageSurface, which is not part of this model)
InitAnyDuration ==
    /\ steps \in 1 .. MaxSteps
    /\ duration \in {steps * TicksPerStep, -(steps * TicksPerStep), 0}
    /\ extent \in 1 .. MaxHeight
    /\ items = <<>>
    /\ construct

\* ------------------------------------------------------ exact arithmetic
RECURSIVE GCD(_, _)
GCD(a, b) == IF b = 0 THEN a ELSE GCD(b, a % b)

\* the rational n / d (d # 0) in lowest terms with a positive denominator
Rat(n, d) ==
    LET g == GCD(Abs(n), Abs(d))
        sg == IF d < 0 THEN -1 ELSE 1
    IN  [n |-> (sg * n) \div g, d |-> (sg * d) \div g]

RInt(k) == [n |-> k, d |-> 1]
RAdd(x, y) == Rat(x.n * y.d + y.n * x.d, x.d * y.d)
RSub(x, y) == Rat(x.n * y.d - y.n * x.d, x.d * y.d)
RMul(x, y) == Rat(x.n * y.n, x.d * y.d)
RDiv(x, y) == Rat(x.n * y.d, x.d * y.n)
RLess(x, y) == x.n * y.d < y.n * x.d
RMin(x, y) == IF RLess(y, x) THEN y ELSE x
\* Python's x % m for an integer m > 0: the result lies in [0, m)
RMod(x, m) == Rat(x.n % (m * x.d), x.d)
RFloor(x) == FloorDiv(x.n, x.d)
RCeil(x) == CeilDiv(x.n, x.d)

\* ------------------------------------------------------------ render
\* span = math.hypot(to_x - from_x, to_y - from_y), here in half pixels
span == Rat(span2, 2)

\* dst_width = min(span - i, 1)
dst_width(k) == RMin(RSub(span, RInt(k)), RInt(1))

\* dst_extent = i / span * (to_extent - from_extent) + from_extent, at the
\* position pos along the trajectory (i for the near edge, i + dst_width
\* for the far edge)
dst_extent_at(pos) ==
    RAdd(RMul(RDiv(pos, span), RInt(to_extent - from_extent)),
         RInt(from_extent))

\* the divisions of lines 120-151 that raise ZeroDivisionError (i / span
\* of line 114 raises it when span is 0)
offset_raises(e) ==
    \/ e.n = 0                       \* 1 / dst_extent
    \/ from_extent = 0               \* 1 / from_extent
    \/ to_extent = 0                 \* 1 / to_extent
    \/ from_extent = to_extent       \* / (1 / to_extent - 1 / from_extent)

\* ((1 / e - 1 / from_extent) / (1 / to_extent - 1 / from_extent)
\*   * self.steps + base_offset - 1) % self.steps
src_offset(e) ==
    RMod(RAdd(RMul(RDiv(RSub(RDiv(RInt(1), e),
                             RDiv(RInt(1), RInt(from_extent))),
                        RSub(RDiv(RInt(1), RInt(to_extent)),
                             RDiv(RInt(1), RInt(from_extent)))),
                   RInt(steps)),
              RInt(base_offset - 1)),
         steps)

\* The pattern matrix m maps the destination rectangle to the source
\* strip that starts at this_offset and is dst_width * (extent /
\* dst_extent) wide; with EXTEND_REPEAT the strip wraps around the bitmap.
\* These are the buffer columns the fill reads.
sampled(off, w, e) ==
    LET hi == RAdd(off, RMul(w, RDiv(RInt(extent), e)))
    IN  {c % steps : c \in RFloor(off) .. (RCeil(hi) - 1)}

Geometry == (0 .. MaxExtent) \X (0 .. MaxExtent) \X (0 .. MaxSpan2)

\* the trajectory of the scan specification: a valid perspective strip
ScanGeometry == {<<1, MaxExtent, MaxSpan2>>}

\* the times of the geometry specification
GeometryTimes == {0, TicksPerStep}

\* variant: one column interval before the time of the call
bootstrap_time_relative(t) == t - duration \div steps

\* line 90: the time the first call pretends to have drawn last
bootstrap_time(t) == -(duration \div steps)

\* variant: the cursor does not wrap
step_cursor_unwrapped(o) == o - 1

\* lines 96-99: the cursor moves one column down, wrapping below 0
step_cursor(o) == IF o - 1 < 0 THEN o - 1 + steps ELSE o - 1

\* variant: the division by steps is forgotten
step_time_undivided(last, k) == last + k * duration

\* line 100: this_time = self.last_draw_time + time_steps * self.duration
\* / self.steps
step_time(last, k) == last + (k * duration) \div steps

\* variant: one column more than the span needs
columns_to_fill_one_more == RFloor(span) + 1

\* line 112: the for loop runs over range(0, math.ceil(span))
columns_to_fill == RCeil(span)

\* variant: both edges of the item must lie in the window
visible_both_edges(item, t) ==
    /\ item.x_offset >= t /\ item.x_offset <= t + duration
    /\ item.x_offset + item.width >= t
    /\ item.x_offset + item.width <= t + duration

\* SlitscanObjects.draw_items, lines 197-202: the test that decides
\* whether an item is painted in the column of time t
visible(item, t) ==
    \/ item.x_offset >= t /\ item.x_offset <= t + duration
    \/ /\ item.x_offset + item.width >= t
       /\ item.x_offset + item.width <= t + duration

\* SlitscanObjects.draw_items(g, t): the items it paints, as indices into
\* self.items, in the order it paints them
RECURSIVE draw_items_from(_, _)
draw_items_from(k, t) ==
    IF k > Len(items) THEN <<>>
    ELSE (IF visible(items[k], t) THEN <<k>> ELSE <<>>)
             \o draw_items_from(k + 1, t)

draw_items(t) == draw_items_from(1, t)

\* does a call at time t continue the current run of calls?
continues(t) ==
    /\ win.start # None
    /\ prev.outcome # "DrawError"
    /\ last_draw_time # None
    /\ Val(last_draw_time) < t
    /\ t - Val(win.start) < duration

\* render, lines 87-93 (and 105-111 when last_draw_time == at_time)
RenderBegin(t, fe, te, sp) ==
    /\ pc = "idle"
    /\ at_time' = t
    /\ from_extent' = fe
    /\ to_extent' = te
    /\ span2' = sp
    /\ draws' = <<>>
    /\ fills' = <<>>
    /\ entry' = [last |-> last_draw_time, pix |-> pix]
    /\ win' = IF continues(t)
              THEN [win EXCEPT !.first = FALSE]
              ELSE [start |-> Some(t), first |-> TRUE, cols |-> <<>>]
    /\ time_steps' = 0
    /\ i' = 0
    /\ IF duration = 0
       THEN \* line 87: at_time / self.duration raises ZeroDivisionError
            /\ pc' = "raised"
            /\ outcome' = "ZeroDivisionError"
            /\ g_saved' = 0
            /\ UNCHANGED <<last_draw_time, base_offset, this_offset>>
       ELSE /\ base_offset' = time_to_offset(t)
            /\ outcome' = "none"
            /\ IF last_draw_time # Some(t)
               THEN /\ last_draw_time' =
                           IF last_draw_time = None
                           THEN Some(bootstrap_time(t))
                           ELSE last_draw_time
                    /\ this_offset' = time_to_offset(Val(last_draw_time'))
                    /\ pc' = "catchup"
                    /\ g_saved' = 0
               ELSE /\ UNCHANGED <<last_draw_time, this_offset>>
                    /\ g_saved' = 1
                    /\ pc' = "composite"
    /\ UNCHANGED <<steps, duration, extent, items, pix, prev>>

\* one iteration of the while loop, lines 94-101; the draw callback either
\* paints the column or raises
CatchupStep(ok) ==
    /\ pc = "catchup"
    /\ this_offset # base_offset
    /\ LET k == time_steps + 1
           cursor == step_cursor(this_offset)
           this_time == step_time(Val(last_draw_time), k)
           col == time_to_offset(this_time)
       IN  /\ time_steps' = k
           /\ this_offset' = cursor
           /\ draws' = Append(draws,
                  [col |-> col, cursor |-> cursor, time |-> this_time,
                   ok |-> ok,
                   items |-> IF ok THEN draw_items(this_time) ELSE <<>>])
           /\ IF ok
              THEN /\ pix' = [get_context(pix, this_time) EXCEPT ![col] = Drawn]
                   /\ UNCHANGED <<pc, outcome>>
              ELSE /\ pix' = get_context(pix, this_time)
                   /\ pc' = "raised"
                   /\ outcome' = "DrawError"
    /\ UNCHANGED <<steps, duration, extent, items, last_draw_time, at_time,
                   base_offset, from_extent, to_extent, span2, i, g_saved,
                   fills, entry, prev, win>>

\* variant: the time of the call is not stored in last_draw_time
CatchupEnd_unrecorded ==
    /\ pc = "catchup"
    /\ this_offset = base_offset
    /\ g_saved' = g_saved + 1
    /\ i' = 0
    /\ pc' = "composite"
    /\ UNCHANGED <<steps, duration, extent, items, pix, last_draw_time, at_time,
                   base_offset, this_offset, time_steps, from_extent,
                   to_extent, span2, outcome, draws, fills, entry, prev,
                   win>>

\* loop exit, lines 102-111
CatchupEnd ==
    /\ pc = "catchup"
    /\ this_offset = base_offset
    /\ last_draw_time' = Some(at_time)
    /\ g_saved' = g_saved + 1
    /\ i' = 0
    /\ pc' = "composite"
    /\ UNCHANGED <<steps, duration, extent, items, pix, at_time, base_offset,
                   this_offset, time_steps, from_extent, to_extent, span2,
                   outcome, draws, fills, entry, prev, win>>

\* one iteration of the for loop, lines 112-166
Fill ==
    /\ pc = "composite"
    /\ i < columns_to_fill
    /\ LET w == dst_width(i)
           e == dst_extent_at(RInt(i))
           e2 == dst_extent_at(RAdd(RInt(i), w))
       IN  IF span2 = 0 \/ offset_raises(e) \/ offset_raises(e2)
           THEN /\ pc' = "raised"
                /\ outcome' = "ZeroDivisionError"
                /\ UNCHANGED <<i, fills>>
           ELSE /\ fills' = Append(fills,
                        [i |-> i, dst_width |-> w, dst_extent |-> e,
                         src |-> src_offset(e),
                         cols |-> sampled(src_offset(e), w, e)])
                /\ i' = i + 1
                /\ UNCHANGED <<pc, outcome>>
    /\ UNCHANGED <<steps, duration, extent, items, pix, last_draw_time, at_time,
                   base_offset, this_offset, time_steps, from_extent,
                   to_extent, span2, g_saved, draws, entry, prev, win>>

\* end of the for loop, lines 167-169: g.restore() and return
RenderEnd ==
    /\ pc = "composite"
    /\ i >= columns_to_fill
    /\ g_saved' = g_saved - 1
    /\ pc' = "returned"
    /\ outcome' = "returned"
    /\ UNCHANGED <<steps, duration, extent, items, pix, last_draw_time, at_time,
                   base_offset, this_offset, time_steps, from_extent,
                   to_extent, span2, i, draws, fills, entry, prev, win>>

\* the columns a sequence of draw callback invocations painted, in order
painted(ds) == [k \in 1 .. Len(ds) |-> ds[k].col]

\* control is back with the caller: render's locals are gone
Return ==
    /\ pc \in {"returned", "raised"}
    /\ pc' = "idle"
    /\ entry' = NoEntry
    /\ prev' = [outcome |-> outcome,
                at |-> IF outcome = "DrawError" THEN None ELSE Some(at_time)]
    /\ win' = IF win.first THEN win
              ELSE [win EXCEPT !.cols = win.cols \o painted(draws)]
    /\ at_time' = 0
    /\ base_offset' = 0
    /\ this_offset' = 0
    /\ time_steps' = 0
    /\ from_extent' = 0
    /\ to_extent' = 0
    /\ span2' = 0
    /\ i' = 0
    /\ g_saved' = 0
    /\ outcome' = "none"
    /\ draws' = <<>>
    /\ fills' = <<>>
    /\ UNCHANGED <<steps, duration, extent, items, pix, last_draw_time>>

\* render called at any time, along the scan trajectory
Render == \E t \in Times, geo \in ScanGeometry :
             RenderBegin(t, geo[1], geo[2], geo[3])

\* render called along any trajectory, at one of two times
RenderGeometry == \E t \in GeometryTimes, geo \in Geometry :
                     RenderBegin(t, geo[1], geo[2], geo[3])

Draw == CatchupStep(TRUE)
DrawRaises == CatchupStep(FALSE)

Next ==
    \/ Render
    \/ Draw
    \/ DrawRaises
    \/ CatchupEnd
    \/ Fill
    \/ RenderEnd
    \/ Return

Spec == Init /\ [][Next]_vars

NextGeometry ==
    \/ RenderGeometry
    \/ Draw
    \/ DrawRaises
    \/ CatchupEnd
    \/ Fill
    \/ RenderEnd
    \/ Return

SpecGeometry == Init /\ [][NextGeometry]_vars

\* render of a SlitscanObjects, along the scan trajectory at one of two
\* times
RenderItems == \E t \in GeometryTimes, geo \in ScanGeometry :
                  RenderBegin(t, geo[1], geo[2], geo[3])

NextItems ==
    \/ RenderItems
    \/ Draw
    \/ DrawRaises
    \/ CatchupEnd
    \/ Fill
    \/ RenderEnd
    \/ Return

SpecItems == InitItems /\ [][NextItems]_vars

\* instances of any duration the constructor accepts
SpecConstruct == InitAnyDuration /\ [][NextGeometry]_vars

\* ------------------------------------------------------------- properties
TypeOK ==
    /\ steps \in 1 .. MaxSteps
    /\ pc \in {"idle", "catchup", "composite", "returned", "raised"}
    /\ base_offset \in Int
    /\ g_saved \in 0 .. 1

\* the catch-up of the current call has run to its end
CatchupDone ==
    \/ pc \in {"composite", "returned"}
    \/ pc = "raised" /\ outcome = "ZeroDivisionError"

\* the call has ended, by return or by an exception
CallEnded == pc \in {"returned", "raised"}

\* the columns passed when stepping cyclically downward from column c0 to
\* column cn
Descending(c0, cn) ==
    [k \in 1 .. ((c0 - cn) % steps) |-> (c0 - k) % steps]

\* C1 (as claimed): in a run of calls at strictly increasing times t0 < t1
\* < .. < tn with tn - t0 < duration, duration > 0, the calls after the
\* first paint exactly the columns passed when stepping cyclically downward
\* from offset(t0) to offset(tn), each once, in that order.
C1_RunPaintsEachColumnOnce ==
    (CatchupDone /\ duration > 0 /\ ~win.first)
        => win.cols \o painted(draws)
               = Descending(time_to_offset(Val(win.start)),
                            time_to_offset(at_time))

\* C2 (as claimed): on the first-ever call the catch-up starts from
\* at_time - duration / steps, so the draw callback is invoked exactly
\* once, with at_time, painting column offset(at_time).
C2_FirstCallDrawsOnce ==
    /\ (pc = "catchup" /\ entry.last = None)
           => last_draw_time = Some(at_time - duration \div steps)
    /\ (CatchupDone /\ entry.last = None)
           => /\ Len(draws) = 1
              /\ draws[1].time = at_time
              /\ draws[1].col = time_to_offset(at_time)

\* C2 (amended): on the first-ever call the catch-up starts from
\* -duration / steps whatever at_time is, so the draw callback is invoked
\* once for each column passed when stepping cyclically downward from
\* column 0 to offset(at_time), the k-th invocation with the time
\* (k - 1) * duration / steps and painting the column under the cursor;
\* for at_time = 0 and steps > 1 that is exactly one invocation, with time
\* 0, painting column steps - 1.
C2_FirstCallCatchesUpFromZero ==
    /\ (pc = "catchup" /\ entry.last = None)
           => last_draw_time = Some(-(duration \div steps))
    /\ (CatchupDone /\ entry.last = None)
           => /\ painted(draws) = Descending(0, time_to_offset(at_time))
              /\ \A k \in 1 .. Len(draws) :
                    /\ draws[k].time = ((k - 1) * duration) \div steps
                    /\ draws[k].col = draws[k].cursor
              /\ (at_time = 0 /\ steps > 1)
                    => /\ Len(draws) = 1
                       /\ draws[1].time = 0
                       /\ draws[1].col = steps - 1

\* a first-ever call at a time other than 0 that painted several columns
C2_Witness ==
    /\ pc = "returned"
    /\ entry.last = None
    /\ at_time > 0
    /\ Len(draws) > 1

\* C3: a call at the time of the call just before it (whose catch-up was
\* not interrupted) invokes the draw callback zero times and leaves
\* last_draw_time and every buffer column as they were.
C3_SameTimeIsIdempotent ==
    (pc # "idle" /\ prev.at = Some(at_time))
        => /\ draws = <<>>
           /\ last_draw_time = entry.last
           /\ pix = entry.pix

\* a second call at the same time has returned, over a painted buffer
C3_Witness ==
    /\ pc = "returned"
    /\ prev.at = Some(at_time)
    /\ \E c \in Columns : pix[c] = Drawn

\* C4 (as claimed): a call that jumps forward from last_draw_time by one
\* full period or more repaints all steps columns of the buffer.
C4_FullPeriodJumpRepaintsAll ==
    (/\ CatchupDone
     /\ duration > 0
     /\ entry.last # None
     /\ at_time - Val(entry.last) >= duration)
        => {draws[k].col : k \in 1 .. Len(draws)} = Columns

\* C5: a single call invokes the draw callback at most steps times and its
\* catch-up loop ends: the iterations done plus the columns still between
\* the cursor and base_offset never exceed steps.
C5_CatchupBounded ==
    /\ Len(draws) <= steps
    /\ Len(draws) = time_steps
    /\ pc = "catchup"
           => time_steps + ((this_offset - base_offset) % steps) <= steps

\* a call that jumped back in time, or forward by more than a period, has
\* finished its catch-up after painting some columns
C5_Witness ==
    /\ CatchupDone
    /\ entry.last # None
    /\ \/ at_time < Val(entry.last)
       \/ at_time - Val(entry.last) > Abs(duration)
    /\ Len(draws) > 0

\* the buffer columns the fills of the current call have read
SampledColumns == UNION {fills[k].cols : k \in 1 .. Len(fills)}

\* C6 (as claimed): every buffer column the compositing phase samples has
\* been painted by the draw callback, unless no column at all has been
\* painted yet.
C6_SampledColumnsArePainted ==
    \/ \A c \in SampledColumns : pix[c] = Drawn
    \/ \A c \in Columns : pix[c] # Drawn

\* C6 (amended): every buffer column the compositing phase samples has
\* been painted by the draw callback or still holds the background fill;
\* the exemption is per column, so compositing may sample columns that
\* hold only the background while other columns are already painted.
C6_SampledColumnsArePaintedOrBackground ==
    \A c \in SampledColumns : pix[c] \in {Drawn, Background}

\* a call has returned after sampling both a painted column and a column
\* that holds only the background
C6_Witness ==
    /\ pc = "returned"
    /\ \E c \in SampledColumns : pix[c] = Drawn
    /\ \E c \in SampledColumns : pix[c] = Background

\* C7 (as claimed): time_to_offset is periodic with period duration, also
\* where (1 - t / duration) * steps - 1 is halfway between two integers.
C7_OffsetPeriodic ==
    pc # "idle" => base_offset = time_to_offset(at_time + duration)

\* C8: time_to_offset yields an integer in [0, steps) for negative, zero
\* and large times alike: base_offset, the cursor and every painted column
\* lie in that range.
C8_OffsetInRange ==
    /\ \A t \in Times : time_to_offset(t) \in Columns
    /\ pc # "idle"
           => /\ base_offset \in Columns
              /\ this_offset \in Columns
              /\ \A k \in 1 .. Len(draws) : draws[k].col \in Columns

\* a call at a negative time and the offset of a time beyond one period
C8_Witness ==
    /\ pc = "catchup"
    /\ at_time < 0
    /\ last_draw_time # None
    /\ Val(last_draw_time) > Abs(duration)
    /\ steps > 1

\* C9 (as claimed): render with from_extent = to_extent (non-zero) and span
\* > 0 completes normally, without a division by zero.
C9_EqualExtentsComplete ==
    (CallEnded /\ from_extent = to_extent /\ from_extent # 0 /\ span2 > 0)
        => /\ outcome = "returned"
           /\ Len(fills) = RCeil(span)

\* C10 (as claimed): every render call leaves the destination context with
\* the saved state it started with on every exit path: no g.save() of the
\* call is left without its g.restore().
C10_SaveRestoreBalanced ==
    CallEnded => g_saved = 0

\* C11 (as claimed): a Slitscan with duration == 0 (or non-positive steps
\* or extent) is rejected by the constructor, so no such instance reaches
\* render.
C11_BadParametersNeverReachRender ==
    pc # "idle" => (duration # 0 /\ steps > 0 /\ extent > 0)

\* C12: with coincident endpoints (span == 0) and non-zero extents, equal
\* or not, render fills no destination column and raises no error: once
\* the catch-up is done the call returns, with g restored.
C12_ZeroSpanFillsNothing ==
    (CatchupDone /\ span2 = 0 /\ from_extent # 0 /\ to_extent # 0)
        => /\ fills = <<>>
           /\ outcome \in {"none", "returned"}
           /\ pc = "returned" => g_saved = 0

\* a call with span == 0 and equal extents has returned after a catch-up
\* that painted a column
C12_Witness ==
    /\ pc = "returned"
    /\ span2 = 0
    /\ from_extent = to_extent
    /\ from_extent # 0
    /\ Len(draws) > 0

\* the items with the given test of visibility at time t
ItemsWhere(Test(_, _), t) == {k \in 1 .. Len(items) : Test(items[k], t)}

\* the time t lies within the span of the item
Within(item, t) == item.x_offset <= t /\ t <= item.x_offset + item.width

\* the test of the specification: t or t + duration lies within the item
WindowEdgeInItem(item, t) == Within(item, t) \/ Within(item, t + duration)

\* the set of the elements of a sequence, and whether it is increasing
Range(seq) == {seq[k] : k \in 1 .. Len(seq)}
Increasing(seq) == \A k \in 1 .. (Len(seq) - 1) : seq[k] < seq[k + 1]

ItemEdgeInWindow(item, t) ==
    \/ t <= item.x_offset /\ item.x_offset <= t + duration
    \/ /\ t <= item.x_offset + item.width
       /\ item.x_offset + item.width <= t + duration

\* the item starts before the window and ends after it
CoversWindow(item, t) ==
    /\ duration > 0
    /\ item.x_offset < t
    /\ t + duration < item.x_offset + item.width

C14_LastDrawTimeFollowsRender ==
    /\ [](last_draw_time = None <=> (pc = "idle" /\ prev.outcome = "none"))
    /\ [](pc = "returned" => last_draw_time = Some(at_time))
    /\ [][last_draw_time' # last_draw_time
             => /\ pc \in {"idle", "catchup"}
                /\ pc' \in {"catchup", "composite"}]_vars

\* a call has returned after moving last_draw_time from an earlier time
C14_Witness ==
    /\ pc = "returned"
    /\ entry.last # None
    /\ entry.last # Some(at_time)
    /\ last_draw_time = Some(at_time)

\* C15: for duration > 0 the unwrapped value round((1 - t / duration) *
\* steps - 1) never increases with t, so within one period the wrapped
\* offset only decreases or stays equal, except for at most one wrap from
\* 0 up to steps - 1.  Stated of the two times a catch-up compares, t1 =
\* last_draw_time < t2 = at_time, whose offsets are the cursor and
\* base_offset.
C15_OffsetNonIncreasing ==
    (pc = "catchup" /\ time_steps = 0 /\ duration > 0
        /\ Val(last_draw_time) < at_time)
        => LET drop == unwrapped_offset(Val(last_draw_time))
                          - unwrapped_offset(at_time)
           IN  /\ drop >= 0
               /\ at_time - Val(last_draw_time) < duration
                      => drop - (this_offset - base_offset) \in {0, steps}

\* a catch-up begins that moves forward by less than one period and whose
\* target column lies above the cursor: the offset has wrapped
C15_Witness ==
    /\ pc = "catchup"
    /\ time_steps = 0
    /\ duration > 0
    /\ Val(last_draw_time) < at_time
    /\ at_time - Val(last_draw_time) < duration
    /\ base_offset > this_offset

\* C16 (as claimed): when the draw callback raises during the catch-up,
\* last_draw_time is left as it was before the call, also on the first
\* call, where it stays None.
C16_InterruptedCatchupKeepsLastDrawTime ==
    (pc = "raised" /\ outcome = "DrawError") => last_draw_time = entry.last

\* the sum of the dst_width of the first n fills
RECURSIVE FilledWidth(_)
FilledWidth(n) ==
    IF n = 0 THEN RInt(0) ELSE RAdd(FilledWidth(n - 1), fills[n].dst_width)

\* C17 (as claimed): for span > 0 and 0 < from_extent <= to_extent the
\* compositing loop performs exactly ceil(span) fills, for i = 0 ..
\* ceil(span) - 1 in order, of width min(span - i, 1), the widths summing
\* to span, with dst_extent non-decreasing and within [from_extent,
\* to_extent].
C17_FillsCoverSpan ==
    (/\ CallEnded
     /\ outcome # "DrawError"
     /\ span2 > 0
     /\ 0 < from_extent
     /\ from_extent <= to_extent)
        => /\ outcome = "returned"
           /\ Len(fills) = RCeil(span)
           /\ FilledWidth(Len(fills)) = span
           /\ \A k \in 1 .. Len(fills) :
                 /\ fills[k].i = k - 1
                 /\ fills[k].dst_width = RMin(RSub(span, RInt(k - 1)), RInt(1))
                 /\ ~RLess(fills[k].dst_extent, RInt(from_extent))
                 /\ ~RLess(RInt(to_extent), fills[k].dst_extent)
                 /\ k > 1 => ~RLess(fills[k].dst_extent,
                                    fills[k - 1].dst_extent)

\* C18 (as claimed): at every step of the catch-up loop the column that
\* get_context(this_time) selects is the column under the cursor, so the
\* last column painted is base_offset.
C18_PaintedColumnIsCursor ==
    /\ \A n \in 1 .. Len(draws) : draws[n].col = draws[n].cursor
    /\ (CatchupDone /\ draws # <<>>) => draws[Len(draws)].col = base_offset

\* the time the catch-up of the current call started from
CatchupFrom ==
    IF entry.last = None THEN bootstrap_time(at_time) ELSE Val(entry.last)

\* C19: for duration > 0 and a call whose catch-up starts at or before
\* at_time, every time passed to the draw callback is later than that
\* start, each is duration / steps later than the one before, and none
\* exceeds at_time + duration / steps.
C19_DrawTimesBounded ==
    (pc # "idle" /\ duration > 0 /\ CatchupFrom <= at_time)
        => \A n \in 1 .. Len(draws) :
              /\ draws[n].time > CatchupFrom
              /\ draws[n].time
                    = (IF n = 1 THEN CatchupFrom ELSE draws[n - 1].time)
                         + duration \div steps
              /\ draws[n].time <= at_time + duration \div steps

\* a catch-up over several columns whose last draw lies one full column
\* interval after at_time
C19_Witness ==
    /\ CatchupDone
    /\ duration > 0
    /\ CatchupFrom < at_time
    /\ Len(draws) > 1
    /\ draws[Len(draws)].time = at_time + duration \div steps

====
